---- MODULE Spec2Model ----
(***************************************************************************)
(* A model of dynamodol: the dict-like Reader / Persister over a DynamoDB  *)
(* table (src/dynamodol/base.py) and the query, partition and prefix       *)
(* readers with their MongoDB-style filter translation                     *)
(* (src/dynamodol/partition_query.py).                                     *)
(*                                                                         *)
(* Python values are modelled by what the code inspects of them:           *)
(*   - a str is a sequence of one-character strings ("01-" + "01" is \o,   *)
(*     begins_with is a prefix test);                                      *)
(*   - a key or value handed to the mapping interface is a tagged value    *)
(*     (PyStr, PyTuple, PyDict), because the code branches on              *)
(*     isinstance(., str) and isinstance(., dict);                         *)
(*   - a stored item is a function from attribute names to strings;        *)
(*   - an exception is the name of its class.                              *)
(* The remote engine is the DynamoDB resource the code calls: get_item,    *)
(* put_item (upsert by key), delete_item (idempotent), scan, query,        *)
(* create_table (ClientError when the table exists) and Table(name).       *)
(* The instances keep the default projection (None) and hold strings only. *)
(***************************************************************************)
EXTENDS Integers, Sequences, FiniteSets, TLC

VARIABLES
    key_fields,            \* instance field: <<partition>> or <<partition, sort>>
    data_fields,           \* instance field: tuple of data field names
    exclude_keys_on_read,  \* instance field
    table,                 \* the lazyprop cache of the instance: NoTable or a handle
    create_calls,          \* number of db.create_table attempts of the instance
    db_tables,             \* remote: names of the tables that exist
    items,                 \* remote: the items of the table
    last,                  \* the operation that ran last, with its outcome
    prev,                  \* the operation that ran before it
    put_keys,              \* history: keys given to put and not to delete since
    reader                 \* the query / partition / prefix reader instance

vars == <<key_fields, data_fields, exclude_keys_on_read, table, create_calls,
          db_tables, items, last, prev, put_keys, reader>>

(***************************************************************************)
(* Bounds of the model.                                                    *)
(***************************************************************************)
MaxItems == 2      \* the table holds at most this many items

(***************************************************************************)
(* Python values.                                                          *)
(***************************************************************************)
EmptyMap == [a \in {} |-> <<>>]

PyNone == [tag |-> "none", str |-> <<>>, tup |-> <<>>, map |-> EmptyMap]
PyStr(s) == [tag |-> "str", str |-> s, tup |-> <<>>, map |-> EmptyMap]
PyTuple(t) == [tag |-> "tuple", str |-> <<>>, tup |-> t, map |-> EmptyMap]
PyDict(m) == [tag |-> "dict", str |-> <<>>, tup |-> <<>>, map |-> m]

Min(a, b) == IF a < b THEN a ELSE b

\* {att: key for att, key in zip(names, vals)}: positional, stops at the
\* shorter of the two, a later duplicate name wins.
Zip(names, vals) ==
    LET n == Min(Len(names), Len(vals))
        last_at(a) == CHOOSE i \in 1..n : names[i] = a /\ \A j \in 1..n : names[j] = a => j <= i
    IN [a \in {names[i] : i \in 1..n} |-> vals[last_at(a)]]

\* {**key, **val}: the entries of val win.
MergedItem(key, val) ==
    [a \in DOMAIN key \cup DOMAIN val |-> IF a \in DOMAIN val THEN val[a] ELSE key[a]]

\* {x: item[x] for x in item if x not in names}
Without(item, names) ==
    [a \in DOMAIN item \ {names[i] : i \in 1..Len(names)} |-> item[a]]

\* {x: d[x] for x in d if x in names}
Only(item, names) ==
    [a \in DOMAIN item \cap {names[i] : i \in 1..Len(names)} |-> item[a]]

(***************************************************************************)
(* Strings of the model (a str is a sequence of characters).               *)
(***************************************************************************)
K1 == <<"k", "1">>
K2 == <<"k", "2">>
PART1 == <<"p", "a", "r", "t", "1">>
PART2 == <<"p", "a", "r", "t", "2">>
S0101 == <<"0", "1", "-", "0", "1">>
S0102 == <<"0", "1", "-", "0", "2">>
S0201 == <<"0", "2", "-", "0", "1">>
VA == <<"a">>
VBCDE == <<"b", "c", "d", "e">>
VBAR == <<"b", "a", "r">>

DFLT_TABLE_NAME == "dynamodol"
DFLT_KEY_FIELDS == <<"key">>
DFLT_DATA_FIELDS == <<"value">>
NONE == "<None>"

Truthy(name) == name \notin {NONE, ""}

(***************************************************************************)
(* DynamoDbBaseReader: schema.                                             *)
(***************************************************************************)
partition_key == key_fields[1]

sort_key == IF Len(key_fields) < 2 THEN NONE ELSE key_fields[2]

\* The key attributes of an item under the table's key schema.
KeyPart(item) == Only(item, key_fields)

(***************************************************************************)
(* The remote table.                                                       *)
(***************************************************************************)
\* Table.get_item(Key=key): the response, with 'Item' when the key is there.
get_item(key) == {it \in items : KeyPart(it) = key}

\* Table.put_item(Item=item): creates the item or replaces the one with its key.
put_item(item) == {it \in items : KeyPart(it) # KeyPart(item)} \cup {item}

\* A delete_item that removes nothing.
delete_item_keeps(key) == items

\* Table.delete_item(Key=key): removes the item if there is one.
delete_item(key) == {it \in items : KeyPart(it) # key}

RECURSIVE SetToSeq(_)
SetToSeq(S) == IF S = {} THEN <<>>
               ELSE LET x == CHOOSE y \in S : TRUE IN <<x>> \o SetToSeq(S \ {x})

\* Table.scan(): response['Items'], in the order the engine returns them.
scan == SetToSeq(items)

\* Table.scan(Select='COUNT'): response['Count'].
scan_count == Cardinality(items)

(***************************************************************************)
(* DynamoDbBaseReader.table: the lazyprop.                                 *)
(***************************************************************************)
NoTable == [name |-> "", via |-> "unset"]

\* The value the property body computes: create_table, and on ClientError
\* (the table exists) db.Table(name).
TableBody(name) ==
    IF name \in db_tables THEN [name |-> name, via |-> "Table"]
    ELSE [name |-> name, via |-> "create_table"]

\* Evaluating self.table: the cached handle, or the body's value, cached.
\* calls: the remote calls this evaluation makes.
UncachedTableAccess ==
    [handle |-> TableBody(DFLT_TABLE_NAME), attempts |-> 1,
     calls |-> IF DFLT_TABLE_NAME \in db_tables THEN <<"create_table", "Table">>
               ELSE <<"create_table">>]

\* self.table as a plain property: the body runs at every access.
TableAccess_not_memoized == UncachedTableAccess

TableAccess ==
    IF table # NoTable THEN [handle |-> table, attempts |-> 0, calls |-> <<>>]
    ELSE UncachedTableAccess

UseTable(acc) ==
    /\ table' = acc.handle
    /\ create_calls' = create_calls + acc.attempts
    /\ db_tables' = db_tables \cup {acc.handle.name}

(***************************************************************************)
(* Record codec.                                                           *)
(***************************************************************************)
\* format_get_item: [ok, value]; ok is FALSE when item[...] raises KeyError.
format_get_item(item) ==
    IF Len(data_fields) > 0
    THEN IF Len(data_fields) = 1
         THEN IF data_fields[1] \in DOMAIN item
              THEN [ok |-> TRUE, value |-> PyStr(item[data_fields[1]])]
              ELSE [ok |-> FALSE, value |-> PyNone]
         ELSE IF \A i \in 1..Len(data_fields) : data_fields[i] \in DOMAIN item
              THEN [ok |-> TRUE,
                    value |-> PyTuple([i \in 1..Len(data_fields) |-> item[data_fields[i]]])]
              ELSE [ok |-> FALSE, value |-> PyNone]
    ELSE IF exclude_keys_on_read
         THEN [ok |-> TRUE, value |-> PyDict(Without(item, key_fields))]
         ELSE [ok |-> TRUE, value |-> PyDict(item)]

\* format_get_key: the external key of an item.
format_get_key(item) ==
    IF Len(key_fields) = 2
    THEN PyTuple(<<item[key_fields[1]], item[key_fields[2]]>>)
    ELSE PyStr(item[key_fields[1]])

\* The head of __getitem__, __setitem__ and __delitem__: a str key raises
\* ValueError when a sort key is defined and is wrapped as (k,) otherwise;
\* then {att: key for att, key in zip(self.key_fields, k)}.
KeyOf(k) ==
    IF k.tag = "str"
    THEN IF Truthy(sort_key)
         THEN [err |-> "ValueError", key |-> EmptyMap]
         ELSE [err |-> "", key |-> Zip(key_fields, <<k.str>>)]
    ELSE [err |-> "", key |-> Zip(key_fields, k.tup)]

\* The value side of __setitem__: a dict as it is, a str wrapped as (v,),
\* then zipped against data_fields.
ValOf(v) ==
    IF v.tag = "dict" THEN v.map
    ELSE Zip(data_fields, IF v.tag = "str" THEN <<v.str>> ELSE v.tup)

(***************************************************************************)
(* The record of an operation.                                             *)
(***************************************************************************)
Op(op, k, v, outcome, result, keys, count, calls, handle) ==
    [op |-> op, k |-> k, v |-> v, outcome |-> outcome, result |-> result,
     keys |-> keys, count |-> count, calls |-> calls, handle |-> handle]

\* What is remembered of the operation before the last one: a put or a delete
\* with its arguments, or that it was neither.
Summary(o) == IF o.op \in {"put", "delete"}
              THEN [op |-> o.op, k |-> o.k, v |-> o.v, outcome |-> o.outcome,
                    count |-> o.count]
              ELSE [op |-> "other", k |-> PyNone, v |-> PyNone, outcome |-> "ok",
                    count |-> -1]

NoOp == Op("init", PyNone, PyNone, "ok", PyNone, <<>>, -1, <<>>, NoTable)

Log(o) == /\ last' = o
          /\ prev' = Summary(last)

FieldsUnchanged == UNCHANGED <<key_fields, data_fields, exclude_keys_on_read>>

ConfigUnchanged == FieldsUnchanged /\ UNCHANGED reader

(***************************************************************************)
(* DynamoDbBaseReader.__getitem__                                          *)
(***************************************************************************)
GetItem(k) ==
    LET kk == KeyOf(k) IN
    IF kk.err # ""
    THEN \* the ValueError is raised inside the try and leaves as NoSuchKeyError
         /\ Log(Op("get", k, PyNone, "NoSuchKeyError", PyNone, <<>>, -1, <<>>, NoTable))
         /\ UNCHANGED <<table, create_calls, db_tables, items, put_keys>>
         /\ ConfigUnchanged
    ELSE LET acc == TableAccess
             found == get_item(kk.key)
             fmt == IF found = {} THEN [ok |-> FALSE, value |-> PyNone]
                    ELSE format_get_item(CHOOSE it \in found : TRUE)
         IN /\ UseTable(acc)
            /\ Log(Op("get", k, PyNone,
                      IF fmt.ok THEN "ok" ELSE "NoSuchKeyError",
                      fmt.value, <<>>, -1, acc.calls \o <<"get_item">>, acc.handle))
            /\ UNCHANGED <<items, put_keys>>
            /\ ConfigUnchanged

(***************************************************************************)
(* DynamoDbBaseReader.__iter__ and __len__; membership (k in s) walks the  *)
(* iteration and compares each key with k.                                 *)
(***************************************************************************)
IterKeys == [i \in 1..Len(scan) |-> format_get_key(scan[i])]

Iter ==
    LET acc == TableAccess IN
    /\ UseTable(acc)
    /\ Log(Op("iter", PyNone, PyNone, "ok", PyNone, IterKeys, -1,
              acc.calls \o <<"scan">>, acc.handle))
    /\ UNCHANGED <<items, put_keys>>
    /\ ConfigUnchanged

LenOp ==
    LET acc == TableAccess IN
    /\ UseTable(acc)
    /\ Log(Op("len", PyNone, PyNone, "ok", PyNone, <<>>, scan_count,
              acc.calls \o <<"scan">>, acc.handle))
    /\ UNCHANGED <<items, put_keys>>
    /\ ConfigUnchanged

Contains(k) ==
    LET acc == TableAccess
        found == \E i \in 1..Len(IterKeys) : IterKeys[i] = k
    IN /\ UseTable(acc)
       /\ Log(Op("contains", k, PyNone, "ok", PyNone, <<>>,
                 IF found THEN 1 ELSE 0, acc.calls \o <<"scan">>, acc.handle))
       /\ UNCHANGED <<items, put_keys>>
       /\ ConfigUnchanged

(***************************************************************************)
(* DynamoDbBasePersister.__setitem__ and __delitem__                       *)
(***************************************************************************)
SetItem(k, v) ==
    LET kk == KeyOf(k) IN
    IF kk.err # ""
    THEN /\ Log(Op("put", k, v, kk.err, PyNone, <<>>, -1, <<>>, NoTable))
         /\ UNCHANGED <<table, create_calls, db_tables, items, put_keys>>
         /\ ConfigUnchanged
    ELSE LET acc == TableAccess
             item == MergedItem(kk.key, ValOf(v))
         IN /\ Cardinality(put_item(item)) <= MaxItems
            /\ UseTable(acc)
            /\ items' = put_item(item)
            /\ put_keys' = put_keys \cup {k}
            /\ Log(Op("put", k, v, "ok", PyNone, <<>>, -1,
                      acc.calls \o <<"put_item">>, acc.handle))
            /\ ConfigUnchanged

DelItem(k) ==
    LET kk == KeyOf(k) IN
    IF kk.err # ""
    THEN \* the exception has no __name__: it is raised again as it is
         /\ Log(Op("delete", k, PyNone, kk.err, PyNone, <<>>, -1, <<>>, NoTable))
         /\ UNCHANGED <<table, create_calls, db_tables, items, put_keys>>
         /\ ConfigUnchanged
    ELSE LET acc == TableAccess IN
         /\ UseTable(acc)
         /\ items' = delete_item(kk.key)
         /\ put_keys' = put_keys \ {k}
         \* count: how many items the delete removed (history only: the
         \* response of delete_item is not read)
         /\ Log(Op("delete", k, PyNone, "ok", PyNone, <<>>,
                   Cardinality(get_item(kk.key)),
                   acc.calls \o <<"delete_item">>, acc.handle))
         /\ ConfigUnchanged

(***************************************************************************)
(* Filter specifications: a dict, in insertion order, from an attribute    *)
(* name to a primitive or to a dict {operator: operand}.                   *)
(***************************************************************************)
ArgStr(s) == [t |-> "str", s |-> s, n |-> 0, l |-> <<>>, d |-> <<>>]
ArgInt(n) == [t |-> "int", s |-> <<>>, n |-> n, l |-> <<>>, d |-> <<>>]
ArgBool(b) == [t |-> "bool", s |-> <<>>, n |-> IF b THEN 1 ELSE 0, l |-> <<>>, d |-> <<>>]
ArgList(l) == [t |-> "list", s |-> <<>>, n |-> 0, l |-> l, d |-> <<>>]
ArgDict(op, arg) == [t |-> "dict", s |-> <<>>, n |-> 0, l |-> <<>>,
                     d |-> <<[op |-> op, arg |-> arg]>>]
ArgNone == [t |-> "none", s |-> <<>>, n |-> 0, l |-> <<>>, d |-> <<>>]

\* An operator string: its first character and the rest (operator[1:]).
D(name) == [sigil |-> "$", name |-> name]

Entry(attr, val) == [attr |-> attr, val |-> val]

NoQuery == [isdict |-> FALSE, entries |-> <<>>]
Query(entries) == [isdict |-> TRUE, entries |-> entries]

\* attr in query, query[attr]
InQuery(attr, q) == \E i \in 1..Len(q.entries) : q.entries[i].attr = attr
QueryAt(attr, q) == q.entries[CHOOSE i \in 1..Len(q.entries) : q.entries[i].attr = attr].val

valid_key_operators == {"begins_with", "between", "gt", "gte", "lt", "lte"}
valid_attr_operators == valid_key_operators \cup
                        {"contains", "ne", "exists", "not_exists", "is_in", "size"}
valid_size_operators == {"gt", "gte", "lt", "lte", "between", "is_in"}

(***************************************************************************)
(* boto3 conditions: Key(name) / Attr(name) / Attr(name).size() with a     *)
(* method applied; a conjunction built with & from left to right is the    *)
(* sequence of its conditions, and None is the empty sequence.             *)
(***************************************************************************)
FilterObj(kind, name) == [kind |-> kind, name |-> name, size |-> FALSE]
SizeOf(obj) == [kind |-> obj.kind, name |-> obj.name, size |-> TRUE]

Cond(obj, method, args) == [obj |-> obj, method |-> method, args |-> args]
NoCond == Cond(FilterObj("", ""), "", <<>>)

Ok(c) == [err |-> "", cond |-> c]
Raise(e) == [err |-> e, cond |-> NoCond]

\* The condition methods of a Key, an Attr and a Size object.
Methods(obj) ==
    LET base == {"eq", "lt", "lte", "gt", "gte", "begins_with", "between"} IN
    IF obj.size \/ obj.kind = "Key" THEN base
    ELSE base \cup {"ne", "is_in", "exists", "not_exists", "contains", "size",
                    "attribute_type"}

\* The methods that take no value.
NoValueMethods == {"exists", "not_exists", "size"}

\* len(value), and *value.
HasLen(value) == value.t \in {"list", "str"}
PyLen(value) == IF value.t = "list" THEN Len(value.l) ELSE Len(value.s)
Unpack(value) == IF value.t = "list" THEN value.l
                 ELSE [i \in 1..Len(value.s) |-> ArgStr(<<value.s[i]>>)]

apply_filter_method(filter_obj, operator, value) ==
    IF operator.name \notin Methods(filter_obj) THEN Raise("AttributeError")
    ELSE IF operator = D("between")
    THEN IF ~HasLen(value) THEN Raise("TypeError")
         ELSE IF PyLen(value) # 2 THEN Raise("ValueError")
         ELSE Ok(Cond(filter_obj, "between", Unpack(value)))
    ELSE IF operator.name \in NoValueMethods \/ operator.name = "between"
         THEN Raise("TypeError")
         ELSE Ok(Cond(filter_obj, operator.name, <<value>>))

IsPrimitive(v) == v.t \in {"str", "int", "bool"}

mk_query_from_dict_val(attr_or_key, query_val, is_key) ==
    LET filter_obj == FilterObj(IF is_key THEN "Key" ELSE "Attr", attr_or_key) IN
    IF IsPrimitive(query_val) THEN Ok(Cond(filter_obj, "eq", <<query_val>>))
    ELSE IF query_val.t # "dict" THEN Raise("AttributeError")
    ELSE
    LET first == query_val.d[1]
        operator == IF first.op = D("in") THEN D("is_in") ELSE first.op
        value == first.arg
        valid_operator_list == IF is_key THEN valid_key_operators
                               ELSE valid_attr_operators
    IN  IF operator.name \notin valid_operator_list THEN Raise("ValueError")
        ELSE IF operator = D("exists")
        THEN IF value = ArgBool(FALSE)
             THEN Ok(Cond(filter_obj, "not_exists", <<>>))
             ELSE Ok(Cond(filter_obj, "exists", <<>>))
        ELSE IF operator = D("size")
        THEN IF value.t \in {"int", "bool"}
             THEN Ok(Cond(SizeOf(filter_obj), "eq", <<value>>))
             ELSE IF value.t # "dict" THEN Raise("AttributeError")
             ELSE IF value.d[1].op.name \notin valid_size_operators
                  THEN Raise("ValueError")
                  ELSE apply_filter_method(SizeOf(filter_obj), value.d[1].op,
                                           value.d[1].arg)
        ELSE apply_filter_method(filter_obj, operator, value)

(***************************************************************************)
(* DynamoDbQueryReader.__post_init__ and its subclasses.                   *)
(***************************************************************************)
KeyEq(name, value) == Cond(FilterObj("Key", name), "eq", <<value>>)
KeyBeginsWith(name, value) == Cond(FilterObj("Key", name), "begins_with", <<value>>)

\* The key_query of lines 96-102, given the key_query the caller passed.
KeyQueryOf(query, key_query) ==
    IF key_query # <<>> THEN [err |-> "", conds |-> key_query]
    ELSE IF InQuery(partition_key, query)
    THEN LET eq == KeyEq(partition_key, QueryAt(partition_key, query)) IN
         IF InQuery(sort_key, query)
         THEN LET r == mk_query_from_dict_val(sort_key, QueryAt(sort_key, query), TRUE)
              IN IF r.err # "" THEN [err |-> r.err, conds |-> <<>>]
                 ELSE [err |-> "", conds |-> <<eq, r.cond>>]
         ELSE [err |-> "", conds |-> <<eq>>]
    ELSE [err |-> "", conds |-> <<>>]

\* The loop of lines 104-112 from entry i on, attr_query being acc so far.
RECURSIVE AttrQueryFrom(_, _, _, _)
AttrQueryFrom(query, key_query, i, acc) ==
    IF i > Len(query.entries) THEN [err |-> "", conds |-> acc]
    ELSE LET attr == query.entries[i].attr
             val == query.entries[i].val
         IN IF attr = partition_key \/ (key_query # <<>> /\ attr = sort_key)
            THEN AttrQueryFrom(query, key_query, i + 1, acc)
            ELSE IF \E j \in 1..Len(key_fields) : key_fields[j] = attr
            THEN AttrQueryFrom(query, key_query, i + 1, acc)
            ELSE LET r == mk_query_from_dict_val(attr, val, FALSE) IN
                 IF r.err # "" THEN [err |-> r.err, conds |-> <<>>]
                 ELSE AttrQueryFrom(query, key_query, i + 1, acc \o <<r.cond>>)

\* DynamoDbQueryReader.__post_init__: [err, key_query, attr_query].
QueryPostInit(query, key_query, attr_query) ==
    IF ~query.isdict
    THEN [err |-> "", key_query |-> key_query, attr_query |-> attr_query]
    ELSE LET kq == KeyQueryOf(query, key_query) IN
         IF kq.err # "" THEN [err |-> kq.err, key_query |-> <<>>, attr_query |-> <<>>]
         ELSE IF attr_query # <<>>
         THEN [err |-> "", key_query |-> kq.conds, attr_query |-> attr_query]
         ELSE LET aq == AttrQueryFrom(query, kq.conds, 1, <<>>) IN
              IF aq.err # "" THEN [err |-> aq.err, key_query |-> <<>>, attr_query |-> <<>>]
              ELSE [err |-> "", key_query |-> kq.conds, attr_query |-> aq.conds]

\* DynamoDbPartitionReader.__post_init__
PartitionPostInit(query, partition) ==
    IF Len(key_fields) # 2
    THEN [err |-> "ValueError", key_query |-> <<>>, attr_query |-> <<>>]
    ELSE QueryPostInit(query, <<KeyEq(partition_key, ArgStr(partition))>>, <<>>)

\* The key_query the partition reader left: no condition on the sort key.
PrefixKeyQuery_partition_only(partition, prefix) ==
    <<KeyEq(partition_key, ArgStr(partition))>>

\* The key_query DynamoDbPrefixReader.__post_init__ sets last.
PrefixKeyQuery(partition, prefix) ==
    <<KeyEq(partition_key, ArgStr(partition)), KeyBeginsWith(sort_key, ArgStr(prefix))>>

\* DynamoDbPrefixReader.__post_init__
PrefixPostInit(query, partition, prefix) ==
    LET r == PartitionPostInit(query, partition) IN
    IF r.err # "" THEN r
    ELSE [err |-> "", key_query |-> PrefixKeyQuery(partition, prefix),
          attr_query |-> r.attr_query]

PostInit(kind, query, key_query, partition, prefix) ==
    IF kind = "Query" THEN QueryPostInit(query, key_query, <<>>)
    ELSE IF kind = "Partition" THEN PartitionPostInit(query, partition)
    ELSE PrefixPostInit(query, partition, prefix)

\* Constructing the reader of a behaviour: the instance, or the exception
\* __post_init__ raised (then there is no instance: exists is FALSE).
Construct(kind, query, key_query, partition, prefix) ==
    LET r == PostInit(kind, query, key_query, partition, prefix) IN
    /\ reader.kind = "none"
    /\ reader' = [kind |-> kind, exists |-> r.err = "", err |-> r.err,
                  query |-> query, given_key_query |-> key_query,
                  key_query |-> r.key_query, attr_query |-> r.attr_query,
                  partition |-> partition, prefix |-> prefix]
    /\ table' = NoTable
    /\ create_calls' = 0
    /\ Log(Op("construct", PyNone, PyNone, IF r.err = "" THEN "ok" ELSE r.err,
              PyNone, <<>>, -1, <<>>, NoTable))
    /\ UNCHANGED <<db_tables, items, put_keys>>
    /\ FieldsUnchanged

(***************************************************************************)
(* The remote range query.                                                 *)
(***************************************************************************)
\* The characters of the model's strings, in code point order.
Alphabet == <<"-", "0", "1", "2", "a", "b", "c", "d", "e", "k", "p", "r", "t">>
Code(c) == CHOOSE i \in 1..Len(Alphabet) : Alphabet[i] = c

RECURSIVE StrLt(_, _)
StrLt(a, b) == IF b = <<>> THEN FALSE
               ELSE IF a = <<>> THEN TRUE
               ELSE IF Head(a) = Head(b) THEN StrLt(Tail(a), Tail(b))
               ELSE Code(Head(a)) < Code(Head(b))
StrLe(a, b) == a = b \/ StrLt(a, b)

BeginsWith(s, prefix) == Len(prefix) <= Len(s) /\ SubSeq(s, 1, Len(prefix)) = prefix

\* Whether an item satisfies a key condition whose values are strings.
EvalKeyCond(c, item) ==
    LET x == item[c.obj.name]
        a == c.args[1].s
    IN CASE c.method = "eq" -> x = a
         [] c.method = "begins_with" -> BeginsWith(x, a)
         [] c.method = "between" -> StrLe(a, x) /\ StrLe(x, c.args[2].s)
         [] c.method = "gt" -> StrLt(a, x)
         [] c.method = "gte" -> StrLe(a, x)
         [] c.method = "lt" -> StrLt(x, a)
         [] c.method = "lte" -> StrLe(x, a)

\* Table.query(KeyConditionExpression=key_query[, AttrConditionExpression=
\* attr_query]): the client refuses a parameter it does not know
\* (AttrConditionExpression) and a KeyConditionExpression of None before it
\* sends anything; the engine refuses a key condition on a value that is not a
\* string (the key attributes are of type S); else the items that satisfy it.
QueryCall(key_query, attr_query) ==
    IF attr_query # <<>> \/ key_query = <<>>
    THEN [err |-> "ParamValidationError", sent |-> FALSE, found |-> {}]
    ELSE IF \E i \in 1..Len(key_query) :
               \E j \in 1..Len(key_query[i].args) : key_query[i].args[j].t # "str"
    THEN [err |-> "ClientError", sent |-> TRUE, found |-> {}]
    ELSE [err |-> "", sent |-> TRUE,
          found |-> {it \in items : \A i \in 1..Len(key_query) :
                                        EvalKeyCond(key_query[i], it)}]

ReaderCalls(acc, r) == IF r.sent THEN acc.calls \o <<"query">> ELSE acc.calls

\* DynamoDbQueryReader.__iter__
QueryIter ==
    /\ reader.exists
    /\ LET acc == TableAccess
           r == QueryCall(reader.key_query, reader.attr_query)
           found == SetToSeq(r.found)
       IN /\ UseTable(acc)
          /\ Log(Op("query_iter", PyNone, PyNone, IF r.err = "" THEN "ok" ELSE r.err,
                    PyNone,
                    [i \in 1..Len(found) |->
                        IF exclude_keys_on_read THEN PyDict(Only(found[i], key_fields))
                        ELSE PyDict(found[i])],
                    -1, ReaderCalls(acc, r), acc.handle))
    /\ UNCHANGED <<items, put_keys>>
    /\ ConfigUnchanged

\* DynamoDbQueryReader.__len__
QueryLen ==
    /\ reader.exists
    /\ LET acc == TableAccess
           r == QueryCall(reader.key_query, reader.attr_query)
       IN /\ UseTable(acc)
          /\ Log(Op("query_len", PyNone, PyNone, IF r.err = "" THEN "ok" ELSE r.err,
                    PyNone, <<>>, IF r.err = "" THEN Cardinality(r.found) ELSE -1,
                    ReaderCalls(acc, r), acc.handle))
    /\ UNCHANGED <<items, put_keys>>
    /\ ConfigUnchanged

\* DynamoDbPartitionReader.__getitem__ and DynamoDbPrefixReader.__getitem__,
\* k being a str.
ReaderGetItem(k) ==
    /\ reader.exists
    /\ reader.kind \in {"Partition", "Prefix"}
    /\ LET acc == TableAccess
           key == (partition_key :> reader.partition) @@
                  (sort_key :> IF reader.kind = "Prefix" THEN reader.prefix \o k ELSE k)
           found == get_item(key)
           fmt == IF found = {} THEN [ok |-> FALSE, value |-> PyNone]
                  ELSE format_get_item(CHOOSE it \in found : TRUE)
       IN /\ UseTable(acc)
          /\ Log(Op("reader_get", PyStr(k), PyNone,
                    IF fmt.ok THEN "ok" ELSE "NoSuchKeyError",
                    fmt.value, <<>>, -1, acc.calls \o <<"get_item">>, acc.handle))
    /\ UNCHANGED <<items, put_keys>>
    /\ ConfigUnchanged

(***************************************************************************)
(* Inputs of the store operations.                                         *)
(***************************************************************************)
KeyInputs ==
    IF Len(key_fields) = 2
    THEN {PyTuple(<<PART1, S0101>>), PyTuple(<<PART2, S0101>>), PyStr(K1)}
    ELSE {PyStr(K1), PyStr(K2)}

ValueInputs ==
    {PyStr(VA), PyTuple(<<VA, VBCDE>>),
     PyDict("val" :> VBAR),
     PyDict((key_fields[1] :> K2) @@ ("val" :> VBAR))}

NoReader == [kind |-> "none", exists |-> FALSE, err |-> "", query |-> NoQuery,
             given_key_query |-> <<>>, key_query |-> <<>>, attr_query |-> <<>>,
             partition |-> <<>>, prefix |-> <<>>]

Init ==
    /\ key_fields \in {DFLT_KEY_FIELDS, <<"partitionkey", "sortkey">>}
    /\ data_fields \in {<<>>, DFLT_DATA_FIELDS, <<"data", "moredata">>}
    /\ exclude_keys_on_read \in (IF data_fields = <<>> THEN BOOLEAN ELSE {TRUE})
    /\ table = NoTable
    /\ create_calls = 0
    /\ db_tables \in {{}, {DFLT_TABLE_NAME}}
    /\ items = {}
    /\ last = NoOp
    /\ prev = Summary(NoOp)
    /\ put_keys = {}
    /\ reader = NoReader

Next ==
    \/ \E k \in KeyInputs : GetItem(k)
    \/ \E k \in KeyInputs : \E v \in ValueInputs : SetItem(k, v)
    \/ \E k \in KeyInputs : DelItem(k)
    \/ \E k \in KeyInputs : Contains(k)
    \/ Iter
    \/ LenOp

Spec == Init /\ [][Next]_vars

(***************************************************************************)
(* The query readers: construction from a filter specification, then       *)
(* iteration and count.                                                    *)
(***************************************************************************)
S01 == <<"0", "1", "-">>
S0 == <<"0">>
S02 == <<"0", "2">>
SX == <<"0", "1">>

\* The items the sample data leaves in the table.
SampleItem(p, s) ==
    IF Len(key_fields) = 2
    THEN (key_fields[1] :> p) @@ (key_fields[2] :> s) @@ ("data" :> VA) @@ ("moredata" :> VBCDE)
    ELSE (key_fields[1] :> p) @@ ("value" :> VA)

SampleItems ==
    {SampleItem(PART1, S0101), SampleItem(PART1, S0102), SampleItem(PART1, S0201),
     SampleItem(PART2, S0101), SampleItem(PART2, S0201)}

PartitionEntries ==
    {<<>>,
     <<Entry(key_fields[1], ArgStr(PART1))>>,
     <<Entry(key_fields[1], ArgDict(D("contains"), ArgStr(<<"p">>)))>>}

SortEntries ==
    {<<>>,
     <<Entry("sortkey", ArgStr(S0101))>>,
     <<Entry("sortkey", ArgDict(D("begins_with"), ArgStr(S01)))>>,
     <<Entry("sortkey", ArgDict(D("between"), ArgList(<<ArgStr(S0101), ArgStr(S0102)>>)))>>,
     <<Entry("sortkey", ArgDict(D("between"), ArgList(<<ArgStr(S0101)>>)))>>,
     <<Entry("sortkey", ArgDict(D("gt"), ArgStr(S0101)))>>,
     <<Entry("sortkey", ArgDict(D("contains"), ArgStr(S0)))>>}

AttrEntries ==
    {<<>>,
     <<Entry("age", ArgInt(18))>>,
     <<Entry("age", ArgDict(D("between"), ArgList(<<ArgInt(18), ArgInt(30)>>)))>>,
     <<Entry("age", ArgDict(D("between"), ArgList(<<ArgInt(18)>>)))>>,
     <<Entry("age", ArgDict(D("between"), ArgList(<<ArgInt(18), ArgInt(30), ArgInt(40)>>)))>>,
     <<Entry("age", ArgDict(D("between"), ArgInt(18)))>>,
     <<Entry("age", ArgDict(D("exists"), ArgBool(FALSE)))>>,
     <<Entry("age", ArgDict(D("exists"), ArgBool(TRUE)))>>,
     <<Entry("age", ArgDict(D("not_exists"), ArgBool(TRUE)))>>,
     <<Entry("age", ArgDict(D("not_exists"), ArgNone))>>,
     <<Entry("age", ArgDict(D("size"), ArgInt(2)))>>,
     <<Entry("age", ArgDict(D("size"), ArgDict(D("between"), ArgList(<<ArgInt(1), ArgInt(2)>>))))>>,
     <<Entry("age", ArgDict(D("size"), ArgDict(D("between"), ArgList(<<ArgInt(1)>>))))>>,
     <<Entry("age", ArgDict(D("size"), ArgDict(D("contains"), ArgInt(1))))>>,
     <<Entry("age", ArgDict(D("in"), ArgList(<<ArgInt(18), ArgInt(30)>>)))>>,
     <<Entry("age", ArgDict(D("contains"), ArgStr(VA)))>>,
     <<Entry("age", ArgDict(D("regex"), ArgStr(VA)))>>}

QueryInputs ==
    {NoQuery} \cup
    {Query(p \o s \o a) : p \in PartitionEntries, s \in SortEntries, a \in AttrEntries}

KeyQueryInputs == {<<>>, <<KeyEq(key_fields[1], ArgStr(PART1))>>}

InitReader ==
    /\ table = NoTable
    /\ create_calls = 0
    /\ db_tables = {DFLT_TABLE_NAME}
    /\ last = NoOp
    /\ prev = Summary(NoOp)
    /\ put_keys = {}
    /\ reader = NoReader

InitQuery ==
    /\ key_fields \in {DFLT_KEY_FIELDS, <<"partitionkey", "sortkey">>}
    /\ data_fields = DFLT_DATA_FIELDS
    /\ exclude_keys_on_read = TRUE
    /\ items = SampleItems
    /\ InitReader

\* DynamoDbQueryReader(query=q, key_query=kq)
ConstructQueryReader ==
    /\ reader.kind = "none"
    /\ \E q \in QueryInputs : \E kq \in KeyQueryInputs :
           Construct("Query", q, kq, <<>>, <<>>)

\* DynamoDbPartitionReader(partition=PART1, query=q)
ConstructFilteredPartitionReader ==
    /\ reader.kind = "none"
    /\ \E q \in QueryInputs : Construct("Partition", q, <<>>, PART1, <<>>)

NextQuery ==
    \/ ConstructQueryReader
    \/ ConstructFilteredPartitionReader
    \/ QueryIter
    \/ QueryLen

SpecQuery == InitQuery /\ [][NextQuery]_vars

InitPrefix ==
    /\ key_fields = <<"partitionkey", "sortkey">>
    /\ data_fields = <<"data", "moredata">>
    /\ exclude_keys_on_read \in BOOLEAN
    /\ items \in SUBSET SampleItems
    /\ InitReader

\* DynamoDbPrefixReader(partition=p, prefix=x)
ConstructPrefixReader ==
    /\ reader.kind = "none"
    /\ \E p \in {PART1, PART2} : \E x \in {S01, S0, S02} :
           Construct("Prefix", NoQuery, <<>>, p, x)

\* DynamoDbPartitionReader(partition=p)
ConstructPartitionReader ==
    /\ reader.kind = "none"
    /\ \E p \in {PART1, PART2} : Construct("Partition", NoQuery, <<>>, p, <<>>)

NextPrefix ==
    \/ ConstructPrefixReader
    \/ ConstructPartitionReader
    \/ QueryIter
    \/ QueryLen
    \/ \E k \in {SX, S0101, S0201} : ReaderGetItem(k)

SpecPrefix == InitPrefix /\ [][NextPrefix]_vars

(***************************************************************************)
(* DynamoDbPartitionPersister: a persister of one partition, whose keys    *)
(* are the sort keys (str). Its __getitem__ is the partition reader's.     *)
(***************************************************************************)
\* The key both methods compose: {partition_key: partition, sort_key: k}.
PartitionKeyOf(k) == (partition_key :> reader.partition) @@ (sort_key :> k)

\* DynamoDbPartitionPersister.__setitem__, k being a str: a str value is
\* zipped against data_fields, any other value is taken as the mapping;
\* self.table is evaluated before {**key, **val}, which raises TypeError for
\* a value that is not a mapping.
PartitionSetItem(k, v) ==
    /\ reader.exists
    /\ reader.kind = "Partition"
    /\ LET acc == TableAccess
           key == PartitionKeyOf(k)
           val == IF v.tag = "str" THEN Zip(data_fields, <<v.str>>) ELSE v.map
           item == MergedItem(key, val)
       IN IF v.tag = "tuple"
          THEN /\ UseTable(acc)
               /\ Log(Op("partition_put", PyStr(k), v, "TypeError", PyNone, <<>>, -1,
                         acc.calls, acc.handle))
               /\ UNCHANGED <<items, put_keys>>
          ELSE /\ Cardinality(put_item(item)) <= MaxItems
               /\ UseTable(acc)
               /\ items' = put_item(item)
               /\ put_keys' = put_keys \cup {PyTuple(<<reader.partition, k>>)}
               /\ Log(Op("partition_put", PyStr(k), v, "ok", PyNone, <<>>, -1,
                         acc.calls \o <<"put_item">>, acc.handle))
    /\ ConfigUnchanged

\* DynamoDbPartitionPersister.__delitem__, k being a str.
PartitionDelItem(k) ==
    /\ reader.exists
    /\ reader.kind = "Partition"
    /\ LET acc == TableAccess
           key == PartitionKeyOf(k)
       IN /\ UseTable(acc)
          /\ items' = delete_item(key)
          /\ put_keys' = put_keys \ {PyTuple(<<reader.partition, k>>)}
          /\ Log(Op("partition_delete", PyStr(k), PyNone, "ok", PyNone, <<>>,
                    Cardinality(get_item(key)),
                    acc.calls \o <<"delete_item">>, acc.handle))
    /\ ConfigUnchanged

\* DynamoDbPartitionPersister(partition=p), as __post_init__ leaves it.
PartitionPersister(p) ==
    LET r == PostInit("Partition", NoQuery, <<>>, p, <<>>) IN
    [kind |-> "Partition", exists |-> r.err = "", err |-> r.err,
     query |-> NoQuery, given_key_query |-> <<>>,
     key_query |-> r.key_query, attr_query |-> r.attr_query,
     partition |-> p, prefix |-> <<>>]

\* Values given to the partition persister.
PartitionValueInputs ==
    {PyStr(VA), PyTuple(<<VA, VBCDE>>),
     PyDict("val" :> VBAR),
     PyDict((key_fields[1] :> PART2) @@ ("val" :> VBAR))}

\* Either persister, constructed: a DynamoDbBasePersister on an empty table,
\* or a DynamoDbPartitionPersister of partition part1 on a table that is
\* empty or holds an item of partition part2.
InitPersisters ==
    \/ Init
    \/ /\ key_fields = <<"partitionkey", "sortkey">>
       /\ data_fields \in {<<>>, DFLT_DATA_FIELDS, <<"data", "moredata">>}
       /\ exclude_keys_on_read \in (IF data_fields = <<>> THEN BOOLEAN ELSE {TRUE})
       /\ table = NoTable
       /\ create_calls = 0
       /\ db_tables = {DFLT_TABLE_NAME}
       /\ items \in {{}, {SampleItem(PART2, S0101)}}
       /\ last = NoOp
       /\ prev = Summary(NoOp)
       /\ put_keys = {}
       /\ reader = PartitionPersister(PART1)

NextPartitionPersister ==
    \/ \E k \in {S0101, S0102} : \E v \in PartitionValueInputs : PartitionSetItem(k, v)
    \/ \E k \in {S0101, S0102} : PartitionDelItem(k)
    \/ \E k \in {S0101, S0102} : ReaderGetItem(k)

NextPersisters ==
    \/ reader.kind = "none" /\ Next
    \/ reader.kind = "Partition" /\ NextPartitionPersister

SpecPersisters == InitPersisters /\ [][NextPersisters]_vars

(***************************************************************************)
(* The claims.                                                             *)
(***************************************************************************)
Range(f) == {f[i] : i \in DOMAIN f}

\* The value has the shape of the configured mode: a str for one data field,
\* a tuple of as many values as data fields for two or more, a dict for none.
ShapeMatches(v) ==
    \/ Len(data_fields) = 1 /\ v.tag = "str"
    \/ Len(data_fields) >= 2 /\ v.tag = "tuple" /\ Len(v.tup) = Len(data_fields)
    \/ Len(data_fields) = 0 /\ v.tag = "dict"

\* Equality of what get returned with the value put: as they are for a str
\* or a tuple, with the key fields left out of both for a dict.
SameValue(got, v) ==
    IF v.tag = "dict"
    THEN got.tag = "dict" /\ Without(got.map, key_fields) = Without(v.map, key_fields)
    ELSE got = v

PutThenGet ==
    /\ prev.op = "put" /\ prev.outcome = "ok"
    /\ last.op = "get" /\ last.k = prev.k
    /\ ShapeMatches(prev.v)
    /\ (Len(key_fields) = 1 \/ Len(data_fields) = 2)

\* C1: put(k, v) followed by get(k) returns a value equal to v under the
\* configured shaping mode (the str, the tuple in data_fields order, or the
\* mapping without the key fields), for every single-key schema and for the
\* composite schema with two data fields.
C1_PutThenGetReturnsValue ==
    PutThenGet => (last.outcome = "ok" /\ SameValue(last.result, prev.v))

DeleteThenGet ==
    /\ Len(key_fields) = 2
    /\ prev.op = "delete" /\ prev.k.tag = "tuple"
    /\ last.op = "get" /\ last.k = prev.k

\* C2: under a composite schema, delete(k) of a pair key k followed by get(k)
\* raises NoSuchKeyError, whether or not k was stored.
C2_DeleteThenGetRaises ==
    DeleteThenGet => last.outcome = "NoSuchKeyError"

\* A delete removed the item of a pair key, the get of that key that followed
\* raised, and another item is still stored.
C2_Witness ==
    /\ DeleteThenGet /\ prev.count = 1
    /\ last.outcome = "NoSuchKeyError" /\ items # {}

StoredKeys == {format_get_key(it) : it \in items}

\* C3: after any puts and deletes from an empty table, count() is the number
\* of distinct keys stored, iterate() yields exactly those keys, each once,
\* and k is a member exactly when k was put and not deleted since.
C3_CountIterateMembership ==
    /\ last.op = "len" => last.count = Cardinality(StoredKeys)
    /\ last.op = "iter" =>
          /\ Range(last.keys) = StoredKeys
          /\ Len(last.keys) = Cardinality(StoredKeys)
    /\ last.op = "contains" => (last.count = 1 <=> last.k \in put_keys)

\* The reader was constructed with a filter specification that has entries.
FilterGiven == reader.query.isdict /\ reader.query.entries # <<>>

\* C4: a Query Reader whose filter specification gives no partition-key
\* entry (and that was given no key condition) fails at construction: no
\* reader exists with an empty key condition, and no iterate or count runs
\* a range query without one.
C4_NoReaderWithoutKeyCondition ==
    /\ (/\ reader.kind = "Query" /\ FilterGiven
        /\ reader.given_key_query = <<>>
        /\ ~InQuery(partition_key, reader.query))
       => ~reader.exists
    /\ (reader.exists /\ FilterGiven) => reader.key_query # <<>>
    /\ (last.op \in {"query_iter", "query_len"} /\ FilterGiven)
       => reader.key_query # <<>>

\* C5: a filter specification whose partition-key entry is an operator
\* mapping is refused at construction with the invalid-operator error
\* (ValueError).
C5_PartitionKeyOperatorRejected ==
    (/\ reader.kind = "Query" /\ reader.query.isdict
     /\ reader.given_key_query = <<>>
     /\ InQuery(partition_key, reader.query)
     /\ QueryAt(partition_key, reader.query).t = "dict")
    => (~reader.exists /\ reader.err = "ValueError")

IsNotExistsForm(val) ==
    /\ val.t = "dict"
    /\ \/ val.d[1].op = D("not_exists")
       \/ val.d[1].op = D("exists") /\ val.d[1].arg = ArgBool(FALSE)

\* C6: the filter {attr: {"$exists": false}} and the filter
\* {attr: {"$not_exists": operand}} both translate, and to the same "not
\* exists" attribute condition.
C6_NotExistsFormsAgree ==
    (/\ reader.kind = "Query" /\ reader.query.isdict
     /\ Len(reader.query.entries) = 1
     /\ reader.query.entries[1].attr \notin Range(key_fields)
     /\ IsNotExistsForm(reader.query.entries[1].val))
    => /\ reader.exists
       /\ reader.attr_query =
             <<Cond(FilterObj("Attr", reader.query.entries[1].attr), "not_exists", <<>>)>>

IsBadBetween(e) ==
    /\ e.op = D("between")
    /\ e.arg.t = "list"
    /\ Len(e.arg.l) # 2

HasBadBetween(val) ==
    /\ val.t = "dict"
    /\ \/ IsBadBetween(val.d[1])
       \/ /\ val.d[1].op = D("size")
          /\ val.d[1].arg.t = "dict"
          /\ IsBadBetween(val.d[1].arg.d[1])

\* C7: a filter specification with a $between (on the sort key, on a
\* non-key attribute, or under $size) whose operand has not exactly two
\* elements makes the construction fail with ValueError, before any remote
\* call and with no reader produced.
C7_BadBetweenFailsConstruction ==
    (/\ reader.kind # "none" /\ reader.query.isdict
     /\ \E i \in 1..Len(reader.query.entries) :
           /\ reader.query.entries[i].attr # partition_key
           /\ HasBadBetween(reader.query.entries[i].val))
    => /\ ~reader.exists
       /\ reader.err = "ValueError"
       /\ create_calls = 0 /\ table = NoTable

\* The stored items of the reader's partition whose sort key begins with its
\* prefix.
PrefixMatches ==
    {it \in items : /\ it[partition_key] = reader.partition
                    /\ BeginsWith(it[sort_key], reader.prefix)}

PlainPrefixReader ==
    reader.exists /\ reader.kind = "Prefix" /\ ~reader.query.isdict

C9_ScalarKeyRejected ==
    [][(/\ Truthy(sort_key)
        /\ last'.op \in {"get", "put", "delete"}
        /\ last'.k.tag = "str")
       => (/\ last'.outcome = "ValueError"
           /\ last'.calls = <<>>
           /\ items' = items)]_vars

\* C10: the instance resolves its table handle at most once, at the first
\* use and not at construction; when create_table fails because the table
\* exists, the handle is db.Table(table_name); every later operation uses
\* the handle resolved first.
C10_TableResolvedOnce ==
    /\ [](last.op = "init" => (table = NoTable /\ create_calls = 0))
    /\ [](create_calls <= 1)
    /\ [][/\ table # NoTable => (table' = table /\ create_calls' = create_calls)
          /\ (table = NoTable /\ table' # NoTable /\ DFLT_TABLE_NAME \in db_tables)
             => table' = [name |-> DFLT_TABLE_NAME, via |-> "Table"]
          /\ (table # NoTable /\ last'.calls # <<>>) => last'.handle = table]_vars

\* The table existed, the first use attached to it, and a later operation
\* ran on the cached handle without another create_table.
C10_Witness ==
    /\ table = [name |-> DFLT_TABLE_NAME, via |-> "Table"]
    /\ create_calls = 1
    /\ prev.op = "put"
    /\ last.op = "get" /\ last.calls = <<"get_item">> /\ last.handle = table

\* A put of either persister that returned.
IsPut(o) == o.op \in {"put", "partition_put"} /\ o.outcome = "ok"

\* The storage key of the external key k a put was given.
PutKey(o) == IF o.op = "put" THEN KeyOf(o.k).key ELSE PartitionKeyOf(o.k.str)

\* get of the storage key succeeds on a table holding its.
Retrievable(its, key) ==
    \E it \in its : KeyPart(it) = key /\ format_get_item(it).ok

\* C11: put(k, v) creates or replaces only the item stored under k: every
\* item stored under another key is the same before and after the put (so
\* get of that key gives the same result), no item appears under another
\* key, and after the put an item is stored under k, which get(k) returns
\* when v has the shape of the configured mode; for every value shape,
\* a mapping with an entry named like a key field included.
C11_PutWritesOnlyUnderItsKey ==
    [][IsPut(last') =>
         /\ \A it \in items \cup items' :
               KeyPart(it) # PutKey(last') => (it \in items <=> it \in items')
         /\ \E it \in items' : KeyPart(it) = PutKey(last')
         /\ ShapeMatches(last'.v) => Retrievable(items', PutKey(last'))]_vars

====
